---------------------------- MODULE Spec2Model ----------------------------
(* Door-state service of fau-fablab/spaceapi: the POST handler               *)
(* update_doorstate of src/spaceapi/spaceapi.py, the two tables it writes    *)
(* (openingperiod, events) and the server clock.                             *)
(*                                                                           *)
(* Time is counted in whole seconds since the epoch. A datetime is modelled  *)
(* by its epoch second; the request's fields are modelled as the strings the *)
(* transport delivers (a string is a sequence of one-character strings).     *)
EXTENDS Integers, Sequences, FiniteSets, TLC

VARIABLES
    now,                \* the server clock, datetime.now()
    openingperiod,      \* table 'openingperiod': a set of rows [opened, closed]
    last_update,        \* table 'events', row 'last_update': NULL or <<timestamp>>
    pc,                 \* per request: where the handler stands
    data,               \* per request: the request's fields (request.json or request.form)
    latest_door_state,  \* per request: the row read by get_latest_state(), NULL or <<row>>
    request,            \* the fields of the request answered last
    response,           \* the answer given last
    list_of_entries,    \* plot: the history entries handed to the plot function
    plot_type,          \* plot: args.plot_type, "by-week" or "by-hour"
    position,           \* plot: _open_ranges_with_end, the index of `last`
    entry,              \* plot: the range yielded last, NULL or <<[start, end, state]>>
    start,              \* plot_by_week: the local `start` of the sweep
    last_monday,        \* plot_by_week: the local `last_monday` of the sweep
    data_by_week,       \* plot_by_week: open duration per week, keyed by the week's Monday
    added,              \* plot_by_week: what the range yielded last added, per week
    vlines,             \* plot_by_hour: the segments drawn, <<date, from, to>>
    plot_pc             \* plot: where the plot function stands

\* the state of the service
servicevars == <<now, openingperiod, last_update, pc, data, latest_door_state, request, response>>

\* the state of the plotting client
plotvars == <<list_of_entries, plot_type, position, entry, start, last_monday,
              data_by_week, added, vlines, plot_pc>>

vars == <<servicevars, plotvars>>

-----------------------------------------------------------------------------
(* Bounds of the model *)

\* the clock starts here (any instant later than ten minutes after the epoch)
StartTime == 1000
\* the clock advances at most this many ticks
MaxTicks == 3
\* rows the table openingperiod may hold
MaxPeriods == 2
\* concurrently handled requests (SpecConc)
NumRequests == 2
\* the clock advances at most this many ticks while requests overlap (SpecConc)
MaxTicksConc == 1

\* the clock advances at most this many ticks while the sensor is watched for
\* going silent (SpecStale)
MaxTicksStale == 12

\* one tick of the clock, in seconds
TickSteps == {60}

\* differences between a claimed time and the server clock that are tried
ClaimOffsets == {0 - 61, 0 - 60, 0, 60, 61}

\* the same, of the sensor's overlapping requests (SpecConc)
SensorOffsets == {0 - 60, 0, 60}

Requests == 1 .. NumRequests

-----------------------------------------------------------------------------
(* Values *)

\* Python's None / SQL NULL; a present value v is <<v>>
NULL == <<>>

\* DoorState.__members__
DoorState == {"opened", "closed"}

\* the shared secret ARGS.key, and a key the server does not use
KEY == "key"
WRONG_KEY == "wrongkey"

DigitChars == <<"0", "1", "2", "3", "4", "5", "6", "7", "8", "9">>

Digits == {DigitChars[i] : i \in 1 .. 10}

DigitVal(c) == (CHOOSE i \in 1 .. 10 : DigitChars[i] = c) - 1

\* str(n) of a non-negative integer: its decimal digits
RECURSIVE str(_)
str(n) == IF n < 10 THEN <<DigitChars[n + 1]>>
          ELSE str(n \div 10) \o <<DigitChars[(n % 10) + 1]>>

\* str.isnumeric(): non-empty and every character numeric
isnumeric(s) == s # <<>> /\ \A i \in 1 .. Len(s) : s[i] \in Digits

\* int(s) of a string of decimal digits
RECURSIVE int(_)
int(s) == IF s = <<>> THEN 0
          ELSE 10 * int(SubSeq(s, 1, Len(s) - 1)) + DigitVal(s[Len(s)])

\* to_timestamp(time): int(time.timestamp()); a datetime is its epoch second
to_timestamp(time) == time

\* datetime.fromtimestamp(n, tzlocal())
fromtimestamp(n) == n

\* calculate_hmac(time, state, key): the keyed digest of "<time>:<state>"
calculate_hmac(time, state, key) == <<"hmac", key>> \o time \o <<":", state>>

\* hmac.compare_digest(a, b)
compare_digest(a, b) == a = b

-----------------------------------------------------------------------------
(* class OpeningPeriod *)

\* OpeningPeriod(opened, closed=None)
OpeningPeriod(opened, closed) == [opened |-> opened, closed |-> closed]

opened_timestamp(p) == to_timestamp(p.opened)

is_open(p) == p.closed = NULL

state_of(p) == IF is_open(p) THEN "opened" ELSE "closed"

\* a variant of last_change_timestamp that forgets `closed`
last_change_timestamp_Opened(p) == to_timestamp(p.opened)

last_change_timestamp(p) == to_timestamp(IF is_open(p) THEN p.opened ELSE p.closed[1])

\* OpeningPeriod.query.order_by(DB.desc(cls.opened)).first()
get_latest_state(table) ==
    IF table = {} THEN NULL
    ELSE <<CHOOSE p \in table : \A q \in table : q.opened <= p.opened>>

\* the row with primary key `opened`, as a session reloads it: NULL or <<row>>
RowByKey(table, opened) ==
    IF \E p \in table : p.opened = opened
    THEN <<CHOOSE p \in table : p.opened = opened>>
    ELSE NULL

\* a variant of CloseRow whose UPDATE loses the other rows
CloseRow_DropsOthers(table, row, time) == {OpeningPeriod(row.opened, <<time>>)}

\* latest_door_state.closed = time; DB.session.commit(): UPDATE ... WHERE opened = key
CloseRow(table, row, time) ==
    {IF p.opened = row.opened THEN OpeningPeriod(p.opened, <<time>>) ELSE p : p \in table}

\* DB.session.add(OpeningPeriod(opened=time)); DB.session.commit(): INSERT
InsertRow(table, time) == table \cup {OpeningPeriod(time, NULL)}

\* the INSERT violates the primary key `opened` (IntegrityError)
KeyExists(table, time) == \E p \in table : p.opened = time

-----------------------------------------------------------------------------
(* class Event *)

\* Event.get_last_update().timestamp: a missing row is created with epoch zero
get_last_update(row) == IF row = NULL THEN <<0>> ELSE row

\* a variant of last_update_is_outdated that calls exactly ten minutes outdated
last_update_is_outdated_Inclusive(row, n) == n - get_last_update(row)[1] >= 600

\* Event.last_update_is_outdated()
last_update_is_outdated(row, n) == n - get_last_update(row)[1] > 600

\* a variant of touch_last_update that leaves the timestamp as it is
touch_last_update_Skipped(row, n) == get_last_update(row)

\* Event.touch_last_update()
touch_last_update(row, n) == <<n>>

-----------------------------------------------------------------------------
(* update_doorstate: validation *)

\* the parameters for which `not data.get(param, None)` holds
MissingParams(d) ==
    (IF d.time = <<>> THEN {"time"} ELSE {})
    \cup (IF d.state = "" THEN {"state"} ELSE {})
    \cup (IF d.hmac = <<>> THEN {"hmac"} ELSE {})

\* a variant of TimeTooFar that refuses a difference of exactly 60 seconds
TimeTooFar_Inclusive(time, n) == (IF time >= n THEN time - n ELSE n - time) >= 60

\* abs(time - datetime.now(tzlocal())).total_seconds() > 60
TimeTooFar(time, n) == (IF time >= n THEN time - n ELSE n - time) > 60

\* a variant of ValidationErrors that checks the time before the digest
ValidationErrors_TimeFirst(d, n) ==
    IF MissingParams(d) # {}
    THEN {<<param, "Parameter is missing">> : param \in MissingParams(d)}
    ELSE IF ~isnumeric(d.time)
    THEN {<<"time", "Time has to be an integer timestamp">>}
    ELSE IF TimeTooFar(fromtimestamp(int(d.time)), n)
    THEN {<<"time", "Time is too far in the future or past">>}
    ELSE IF ~compare_digest(calculate_hmac(d.time, d.state, KEY), d.hmac)
    THEN {<<"hmac", "HMAC digest is wrong">>}
    ELSE IF d.state \notin DoorState
    THEN {<<"state", "State has to be one of">>}
    ELSE {}

\* a variant of ValidationErrors that does not compare the digest
ValidationErrors_NoDigest(d, n) ==
    IF MissingParams(d) # {}
    THEN {<<param, "Parameter is missing">> : param \in MissingParams(d)}
    ELSE IF ~isnumeric(d.time)
    THEN {<<"time", "Time has to be an integer timestamp">>}
    ELSE IF TimeTooFar(fromtimestamp(int(d.time)), n)
    THEN {<<"time", "Time is too far in the future or past">>}
    ELSE IF d.state \notin DoorState
    THEN {<<"state", "State has to be one of">>}
    ELSE {}

\* The ValueError(field, message) the validation raises: a set, empty when the
\* request is valid. required_params is a Python set, so with several fields
\* missing the one reported depends on the set's iteration order.
ValidationErrors(d, n) ==
    IF MissingParams(d) # {}
    THEN {<<param, "Parameter is missing">> : param \in MissingParams(d)}
    ELSE IF ~compare_digest(calculate_hmac(d.time, d.state, KEY), d.hmac)
    THEN {<<"hmac", "HMAC digest is wrong">>}
    ELSE IF ~isnumeric(d.time)
    THEN {<<"time", "Time has to be an integer timestamp">>}
    ELSE IF TimeTooFar(fromtimestamp(int(d.time)), n)
    THEN {<<"time", "Time is too far in the future or past">>}
    ELSE IF d.state \notin DoorState
    THEN {<<"state", "State has to be one of">>}
    ELSE {}

\* a variant of Decide without the comparison of the claimed time
Decide_NoTimeCheck(latest, state, time) ==
    IF latest # NULL
    THEN IF state_of(latest[1]) = state THEN "already" ELSE "update"
    ELSE IF state = "closed" THEN "already_nodata"
    ELSE "update"

\* a variant of Decide that lets a claim through whose time equals the latest change
Decide_AllowEqual(latest, state, time) ==
    IF latest # NULL
    THEN IF state_of(latest[1]) = state THEN "already"
         ELSE IF last_change_timestamp(latest[1]) > to_timestamp(time) THEN "not_newer"
         ELSE "update"
    ELSE IF state = "closed" THEN "already_nodata"
    ELSE "update"

\* a variant of Decide that compares the time of a duplicate-state claim too
Decide_RejectDuplicate(latest, state, time) ==
    IF latest # NULL
    THEN IF last_change_timestamp(latest[1]) >= to_timestamp(time) THEN "not_newer"
         ELSE IF state_of(latest[1]) = state THEN "already"
         ELSE "update"
    ELSE IF state = "closed" THEN "already_nodata"
    ELSE "update"

\* a variant of Decide without the rule for a first claim of 'closed'
Decide_NoBootstrap(latest, state, time) ==
    IF latest # NULL
    THEN IF state_of(latest[1]) = state THEN "already"
         ELSE IF last_change_timestamp(latest[1]) >= to_timestamp(time) THEN "not_newer"
         ELSE "update"
    ELSE "update"

\* What the handler does with a valid claim, given the row it read:
\*   "already"        the latest row has the claimed state
\*   "not_newer"      ValueError('time', 'New entry must be newer than latest entry.')
\*   "already_nodata" no row, claimed closed
\*   "update"         falls through to the update
Decide(latest, state, time) ==
    IF latest # NULL
    THEN IF state_of(latest[1]) = state THEN "already"
         ELSE IF last_change_timestamp(latest[1]) >= to_timestamp(time) THEN "not_newer"
         ELSE "update"
    ELSE IF state = "closed" THEN "already_nodata"
    ELSE "update"

\* the branch of the update: "close", "open" or "abort" (abort(500))
UpdateBranch(latest, state) ==
    IF latest # NULL /\ is_open(latest[1]) /\ state = "closed" THEN "close"
    ELSE IF (latest = NULL \/ ~is_open(latest[1])) /\ state = "opened" THEN "open"
    ELSE "abort"

-----------------------------------------------------------------------------
(* Requests and responses *)

Post(time, state, digest) == [method |-> "POST", time |-> time, state |-> state, hmac |-> digest]

Get == [method |-> "GET", time |-> <<>>, state |-> "", hmac |-> <<>>]

NoRequest == [method |-> "", time |-> <<>>, state |-> "", hmac |-> <<>>]

\* jsonify({'time': ..., 'state': ..., '_text': ...})
Json(time, state, text) ==
    [code |-> 200, error |-> <<>>, time |-> time, state |-> state, text |-> text]

\* abort(code, {field: message})
Abort(code, error) ==
    [code |-> code, error |-> error, time |-> 0, state |-> "", text |-> ""]

NoResponse == [code |-> 0, error |-> <<>>, time |-> 0, state |-> "", text |-> ""]

\* the `time` fields tried at server time n
TimeFields(n) ==
    {<<>>, <<"-", "1">>} \cup {str(n + off) : off \in ClaimOffsets}

StateFields == {"", "opened", "closed", "open"}

\* the digests tried for (time, state): none, the sensor's, one made with another key
HmacFields(time, state) ==
    {<<>>, calculate_hmac(time, state, KEY), calculate_hmac(time, state, WRONG_KEY)}

\* the requests tried at server time n
ClaimInputs(n) ==
    UNION {UNION {{Post(t, s, h) : h \in HmacFields(t, s)} : s \in StateFields} :
           t \in TimeFields(n)}

-----------------------------------------------------------------------------
(* Initial state: empty tables, no request handled yet *)

\* no plot is asked for
NoPlot ==
    /\ list_of_entries = <<>>
    /\ plot_type = ""
    /\ position = 0
    /\ entry = NULL
    /\ start = 0
    /\ last_monday = 0
    /\ data_by_week = <<>>
    /\ added = <<>>
    /\ vlines = <<>>
    /\ plot_pc = ""

\* the service after DB.create_all()
ServiceInit ==
    /\ now = StartTime
    /\ openingperiod = {}
    /\ last_update = NULL
    /\ pc = [r \in Requests |-> "idle"]
    /\ data = [r \in Requests |-> NoRequest]
    /\ latest_door_state = [r \in Requests |-> NULL]
    /\ request = NoRequest
    /\ response = NoResponse

Init == ServiceInit /\ NoPlot

\* the server clock advances
Tick ==
    /\ \E step \in TickSteps :
        /\ now + step <= StartTime + MaxTicks * 60
        /\ now' = now + step
    /\ UNCHANGED <<openingperiod, last_update, pc, data, latest_door_state, request, response>>
    /\ UNCHANGED plotvars

-----------------------------------------------------------------------------
(* POST /spaceapi/door/ handled from its first line to its response with no  *)
(* other request in between                                                  *)

\* the response of the update: the row is reloaded after the commits
UpdatedJson(table, opened) ==
    LET row == RowByKey(table, opened)[1]
    IN Json(last_change_timestamp(row), state_of(row), "door is now")

\* what one run of the handler leaves behind
Outcome(table, marker, resp) ==
    [openingperiod |-> table, last_update |-> marker, response |-> resp]

\* The outcomes of the handler for the request d, started with the tables
\* (table, marker) at server time n: a set, as the missing field reported
\* depends on the iteration order of required_params.
Handle(table, marker, n, d) ==
    LET errors == ValidationErrors(d, n)
        state == d.state
        time == fromtimestamp(int(d.time))
        latest == get_latest_state(table)
        decision == Decide(latest, state, time)
        branch == UpdateBranch(latest, state)
        closed == CloseRow(table, latest[1], time)
        inserted == InsertRow(table, time)
    IN
    IF errors # {}
    THEN {Outcome(table, marker, Abort(400, err)) : err \in errors}
    ELSE CASE decision = "already" ->
                {Outcome(table, touch_last_update(marker, n),
                         Json(last_change_timestamp(latest[1]), state_of(latest[1]),
                              "door was already"))}
           [] decision = "not_newer" ->
                {Outcome(table, marker,
                         Abort(400, <<"time", "New entry must be newer than latest entry">>))}
           [] decision = "already_nodata" ->
                {Outcome(table, marker, Json(0, "closed", "door was already closed"))}
           [] decision = "update" /\ branch = "close" ->
                {Outcome(closed, touch_last_update(marker, n),
                         UpdatedJson(closed, latest[1].opened))}
           [] decision = "update" /\ branch = "open" ->
                IF KeyExists(table, time)
                THEN {Outcome(table, marker, Abort(500, <<"IntegrityError">>))}
                ELSE {Outcome(inserted, touch_last_update(marker, n),
                              UpdatedJson(inserted, time))}
           [] decision = "update" /\ branch = "abort" ->
                {Outcome(table, marker, Abort(500, <<"This should not happen">>))}

update_doorstate(d) ==
    \E o \in Handle(openingperiod, last_update, now, d) :
        /\ Cardinality(o.openingperiod) <= MaxPeriods
        /\ openingperiod' = o.openingperiod
        /\ last_update' = o.last_update
        /\ request' = d
        /\ response' = o.response
        /\ UNCHANGED <<now, pc, data, latest_door_state>>
        /\ UNCHANGED plotvars

\* what GET /spaceapi/door/ reports for the tables (table, marker) at server time n
\* (the two texts for a closed door, which differ by the calendar day of
\* `closed`, are one text here)
doorstate(table, marker, n) ==
    LET latest == get_latest_state(table)
        outdated == last_update_is_outdated(marker, n) \/ latest = NULL
        text == IF outdated THEN "Keine aktuellen Informationen"
                ELSE IF ~is_open(latest[1]) THEN "Das FabLab war zuletzt"
                ELSE "Die FabLab-Tuer ist offen"
    IN Json(IF latest # NULL THEN opened_timestamp(latest[1]) ELSE 0,
            IF outdated THEN "unknown" ELSE state_of(latest[1]),
            text)

\* GET /spaceapi/door/
get_doorstate ==
    /\ last_update' = get_last_update(last_update)
    /\ request' = Get
    /\ response' = doorstate(openingperiod, last_update, now)
    /\ UNCHANGED <<now, openingperiod, pc, data, latest_door_state>>
    /\ UNCHANGED plotvars

\* lines 190-196 and 205-223: what /spaceapi/ says of the door: 'open',
\* 'lastchange' and 'status'
spaceapi_json(table, marker, n) ==
    LET latest == get_latest_state(table)
        outdated == last_update_is_outdated(marker, n) \/ latest = NULL
        open == ~outdated /\ is_open(latest[1])
        state_last_change == get_last_update(marker)[1]
        state_message == IF outdated THEN "doorstate is outdated"
                         ELSE IF open THEN "door is open" ELSE "door is closed"
    IN Json(state_last_change, IF open THEN "true" ELSE "false", state_message)

\* lines 407-412: the logo /spaceapi/door/icon/ redirects to
logo_name(table, marker, n) ==
    LET latest == get_latest_state(table)
        outdated == last_update_is_outdated(marker, n) \/ latest = NULL
    IN IF outdated THEN "logo_transparentbg.png"
       ELSE IF state_of(latest[1]) = "opened" THEN "logo_opened.png" ELSE "logo_closed.png"

GetSpaceapi == [method |-> "GET /spaceapi/", time |-> <<>>, state |-> "", hmac |-> <<>>]

GetIcon == [method |-> "GET /spaceapi/door/icon/", time |-> <<>>, state |-> "", hmac |-> <<>>]

\* GET /spaceapi/
spaceapi ==
    /\ last_update' = get_last_update(last_update)
    /\ request' = GetSpaceapi
    /\ response' = spaceapi_json(openingperiod, last_update, now)
    /\ UNCHANGED <<now, openingperiod, pc, data, latest_door_state>>
    /\ UNCHANGED plotvars

\* GET /spaceapi/door/icon/
get_doorstate_icon ==
    /\ last_update' = get_last_update(last_update)
    /\ request' = GetIcon
    /\ response' = [code |-> 302, error |-> <<>>, time |-> 0, state |-> "",
                    text |-> logo_name(openingperiod, last_update, now)]
    /\ UNCHANGED <<now, openingperiod, pc, data, latest_door_state>>
    /\ UNCHANGED plotvars

Post_update_doorstate == \E d \in ClaimInputs(now) : update_doorstate(d)

Next == Tick \/ Post_update_doorstate \/ get_doorstate \/ spaceapi \/ get_doorstate_icon

Spec == Init /\ [][Next]_vars

-----------------------------------------------------------------------------
(* POST /spaceapi/door/ handled by several requests at once (a threaded      *)
(* server, or several workers on one database). The handler takes no lock:   *)
(* its read, its commit of the row and its commit of the marker are separate *)
(* database operations, and other requests run between them.                 *)

\* the authentic, well-formed requests of the sensor tried at server time n
SensorInputs(n) ==
    {Post(str(n + off), s, calculate_hmac(str(n + off), s, KEY)) :
        off \in SensorOffsets, s \in DoorState}

\* the server clock advances while requests are handled
TickConc ==
    /\ \E step \in TickSteps :
        /\ now + step <= StartTime + MaxTicksConc * 60
        /\ now' = now + step
    /\ UNCHANGED <<openingperiod, last_update, pc, data, latest_door_state, request, response>>
    /\ UNCHANGED plotvars

\* lines 297-347: validation, the read of the latest row, the decision
Receive(r, d) ==
    LET errors == ValidationErrors(d, now)
        state == d.state
        time == fromtimestamp(int(d.time))
        latest == get_latest_state(openingperiod)
        decision == Decide(latest, state, time)
    IN
    /\ pc[r] = "idle"
    /\ UNCHANGED <<now, openingperiod, last_update>>
    /\ IF errors # {}
       THEN /\ \E err \in errors : response' = Abort(400, err)
            /\ request' = d
            /\ UNCHANGED <<pc, data, latest_door_state>>
       ELSE CASE decision = "not_newer" ->
                   /\ response' = Abort(400, <<"time", "New entry must be newer than latest entry">>)
                   /\ request' = d
                   /\ UNCHANGED <<pc, data, latest_door_state>>
              [] decision = "already_nodata" ->
                   /\ response' = Json(0, "closed", "door was already closed")
                   /\ request' = d
                   /\ UNCHANGED <<pc, data, latest_door_state>>
              [] decision \in {"already", "update"} ->
                   /\ pc' = [pc EXCEPT ![r] = decision]
                   /\ data' = [data EXCEPT ![r] = d]
                   /\ latest_door_state' = [latest_door_state EXCEPT ![r] = latest]
                   /\ UNCHANGED <<request, response>>
    /\ UNCHANGED plotvars

\* lines 328-335: the marker is touched, the expired row reloaded and reported
TouchAlready(r) ==
    LET row == RowByKey(openingperiod, latest_door_state[r][1].opened)[1]
    IN
    /\ pc[r] = "already"
    /\ last_update' = touch_last_update(last_update, now)
    /\ request' = data[r]
    /\ response' = Json(last_change_timestamp(row), state_of(row), "door was already")
    /\ pc' = [pc EXCEPT ![r] = "idle"]
    /\ data' = [data EXCEPT ![r] = NoRequest]
    /\ latest_door_state' = [latest_door_state EXCEPT ![r] = NULL]
    /\ UNCHANGED <<now, openingperiod>>
    /\ UNCHANGED plotvars

\* a variant of Commit that touches the marker and answers without having
\* written the row
Commit_MarkerFirst(r) ==
    /\ pc[r] = "update"
    /\ last_update' = touch_last_update(last_update, now)
    /\ request' = data[r]
    /\ response' = Json(int(data[r].time), data[r].state, "door is now")
    /\ pc' = [pc EXCEPT ![r] = "idle"]
    /\ data' = [data EXCEPT ![r] = NoRequest]
    /\ latest_door_state' = [latest_door_state EXCEPT ![r] = NULL]
    /\ UNCHANGED <<now, openingperiod>>
    /\ UNCHANGED plotvars

\* lines 349-365: the row is written and committed
Commit(r) ==
    LET state == data[r].state
        time == fromtimestamp(int(data[r].time))
        latest == latest_door_state[r]
        branch == UpdateBranch(latest, state)
        failed(err) ==
            /\ request' = data[r]
            /\ response' = Abort(500, err)
            /\ pc' = [pc EXCEPT ![r] = "idle"]
            /\ data' = [data EXCEPT ![r] = NoRequest]
            /\ latest_door_state' = [latest_door_state EXCEPT ![r] = NULL]
            /\ UNCHANGED openingperiod
    IN
    /\ pc[r] = "update"
    /\ UNCHANGED <<now, last_update>>
    /\ CASE branch = "close" ->
              /\ openingperiod' = CloseRow(openingperiod, latest[1], time)
              /\ pc' = [pc EXCEPT ![r] = "touch"]
              /\ UNCHANGED <<data, latest_door_state, request, response>>
         [] branch = "open" ->
              /\ Cardinality(openingperiod) < MaxPeriods
              /\ IF KeyExists(openingperiod, time)
                 THEN failed(<<"IntegrityError">>)
                 ELSE /\ openingperiod' = InsertRow(openingperiod, time)
                      /\ pc' = [pc EXCEPT ![r] = "touch"]
                      /\ latest_door_state' =
                            [latest_door_state EXCEPT ![r] = <<OpeningPeriod(time, NULL)>>]
                      /\ UNCHANGED <<data, request, response>>
         [] branch = "abort" -> failed(<<"This should not happen">>)
    /\ UNCHANGED plotvars

\* lines 366-373: the marker is touched, the expired row reloaded and reported
Touch(r) ==
    /\ pc[r] = "touch"
    /\ last_update' = touch_last_update(last_update, now)
    /\ request' = data[r]
    /\ response' = UpdatedJson(openingperiod, latest_door_state[r][1].opened)
    /\ pc' = [pc EXCEPT ![r] = "idle"]
    /\ data' = [data EXCEPT ![r] = NoRequest]
    /\ latest_door_state' = [latest_door_state EXCEPT ![r] = NULL]
    /\ UNCHANGED <<now, openingperiod>>
    /\ UNCHANGED plotvars

ReceiveAny == \E r \in Requests : \E d \in SensorInputs(now) : Receive(r, d)

TouchAlreadyAny == \E r \in Requests : TouchAlready(r)

CommitAny == \E r \in Requests : Commit(r)

TouchAny == \E r \in Requests : Touch(r)

NextConc == TickConc \/ ReceiveAny \/ TouchAlreadyAny \/ CommitAny \/ TouchAny

SpecConc == Init /\ [][NextConc]_vars

-----------------------------------------------------------------------------
(* Properties. The vocabulary of the specification document, stated over the *)
(* model's state.                                                            *)

\* a step that answers a POST: the request answered is request'
PostStep == request'.method = "POST" /\ now' = now

\* all three fields are present and non-empty
Present(d) == d.time # <<>> /\ d.state # "" /\ d.hmac # <<>>

\* the supplied digest is the keyed digest of "<time>:<state>"
Authentic(d) == d.hmac = calculate_hmac(d.time, d.state, KEY)

\* |claimedTime - serverNow| of a request whose time is a digit string
Skew(d, n) == IF int(d.time) >= n THEN int(d.time) - n ELSE n - int(d.time)

\* the request passes every validation step of section 4.1
PassesValidation(d, n) ==
    /\ Present(d)
    /\ Authentic(d)
    /\ isnumeric(d.time)
    /\ Skew(d, n) <= 60
    /\ d.state \in {"opened", "closed"}

\* the latest period of a store, NULL when it is empty
LatestPeriod(table) ==
    IF table = {} THEN NULL
    ELSE <<CHOOSE p \in table : \A q \in table : q.opened <= p.opened>>

PeriodState(p) == IF p.closed = NULL THEN "opened" ELSE "closed"

\* latestChangeTimestamp: `opened` if the period is open, else its `closed`
LatestChange(p) == IF p.closed = NULL THEN p.opened ELSE p.closed[1]

\* C1: processing claims one at a time from an empty store, the periods
\* ordered by `opened` never overlap (an earlier period is closed, and closed
\* no later than the next one opens); hence at most one period is open, and
\* it is the one with the greatest `opened`.
C1_OrderedNonOverlapping ==
    \A p, q \in openingperiod :
        p.opened < q.opened => (p.closed # NULL /\ p.closed[1] <= q.opened)

\* C1 witness: two periods are stored, the later one still open
C1_Witness ==
    \E p, q \in openingperiod :
        p.opened < q.opened /\ q.closed = NULL /\ response.text = "door is now"

\* C2: every period whose `closed` is present has closed > opened
C2_ClosedAfterOpened ==
    \A p \in openingperiod : p.closed # NULL => p.closed[1] > p.opened

\* C2 witness: a period has just been closed
C2_Witness ==
    /\ \E p \in openingperiod : p.closed # NULL
    /\ response.text = "door is now" /\ response.state = "closed"

\* the store the transition table of section 4.2 asks for
C3_Table(table, d) ==
    LET latest == LatestPeriod(table)
        time == int(d.time)
    IN CASE latest = NULL /\ d.state = "opened" ->
              table \cup {[opened |-> time, closed |-> NULL]}
         [] latest = NULL /\ d.state = "closed" -> table
         [] latest # NULL /\ PeriodState(latest[1]) = d.state -> table
         [] latest # NULL /\ PeriodState(latest[1]) = "opened" /\ d.state = "closed" ->
              IF time > LatestChange(latest[1])
              THEN (table \ {latest[1]})
                   \cup {[opened |-> latest[1].opened, closed |-> <<time>>]}
              ELSE table
         [] latest # NULL /\ PeriodState(latest[1]) = "closed" /\ d.state = "opened" ->
              IF time > LatestChange(latest[1])
              THEN table \cup {[opened |-> time, closed |-> NULL]}
              ELSE table

\* C3: for every validated claim the store after the request is the one the
\* transition table gives for (latest period, claim): one period {opened: time}
\* appended, or `closed` set on the latest period alone, or nothing changed.
C3_TransitionTable ==
    [][PostStep /\ PassesValidation(request', now)
         => openingperiod' = C3_Table(openingperiod, request')]_vars

\* C3 witness: a second period has been appended after a closed one
C3_Witness ==
    /\ response.text = "door is now" /\ response.state = "opened"
    /\ \E p \in openingperiod : p.closed # NULL /\ p.closed[1] < response.time

\* C4: when a latest period exists and a validated claim's state differs from
\* its state, the claim is rejected with 'New entry must be newer than latest
\* entry' if and only if time <= latestChangeTimestamp.
C4_NonMonotonicRejected ==
    [][(/\ PostStep
        /\ PassesValidation(request', now)
        /\ LatestPeriod(openingperiod) # NULL
        /\ PeriodState(LatestPeriod(openingperiod)[1]) # request'.state)
         => ((/\ response'.code = 400
              /\ response'.error = <<"time", "New entry must be newer than latest entry">>)
             <=> int(request'.time) <= LatestChange(LatestPeriod(openingperiod)[1]))]_vars

\* C4 witness: the latest period is open and a claim to close it at an
\* earlier time than it was opened has been rejected
C4_Witness ==
    /\ response.error = <<"time", "New entry must be newer than latest entry">>
    /\ request.state = "closed"
    /\ \E p \in openingperiod : p.closed = NULL /\ int(request.time) < p.opened

\* C5: from every reachable store, an accepted claim submitted a second time
\* right after the first is accepted again, gets the same state and
\* last-change timestamp in its response, is read back as the same door state,
\* and leaves every period as the first submission left it.
C5_Idempotent ==
    \A d \in ClaimInputs(now) :
        \A first \in Handle(openingperiod, last_update, now, d) :
            first.response.code = 200 =>
                \A second \in Handle(first.openingperiod, first.last_update, now, d) :
                    /\ second.response.code = 200
                    /\ second.openingperiod = first.openingperiod
                    /\ second.response.time = first.response.time
                    /\ second.response.state = first.response.state
                    /\ doorstate(second.openingperiod, second.last_update, now)
                         = doorstate(first.openingperiod, first.last_update, now)

\* C5 witness: the claim that made the latest change has been submitted again
C5_Witness ==
    /\ response.text = "door was already"
    /\ request.method = "POST"
    /\ LatestPeriod(openingperiod) # NULL
    /\ int(request.time) = LatestChange(LatestPeriod(openingperiod)[1])
    /\ request.state = PeriodState(LatestPeriod(openingperiod)[1])

\* the claim is a duplicate of the latest period's state
DuplicateState(table, d) ==
    LatestPeriod(table) # NULL /\ PeriodState(LatestPeriod(table)[1]) = d.state

C7_NoTwoOpenNoOverlap ==
    /\ Cardinality({p \in openingperiod : p.closed = NULL}) <= 1
    /\ \A p, q \in openingperiod :
          (p.opened < q.opened /\ p.closed # NULL) => p.closed[1] <= q.opened

\* C8: a claim answered with a validation error leaves the periods and the
\* marker as they were; and a step that changes a period or the marker's
\* timestamp answers a claim that passed every validation step, the digest
\* check included, with success.
C8_ErrorsChangeNothing ==
    [][/\ (PostStep /\ response'.code = 400)
            => (openingperiod' = openingperiod /\ last_update' = last_update)
       /\ (\/ openingperiod' # openingperiod
           \/ get_last_update(last_update') # get_last_update(last_update))
            => (/\ PostStep
                /\ PassesValidation(request', now)
                /\ response'.code = 200)]_vars

\* C8 witness: a claim has been refused while periods and a marker are stored
C8_Witness ==
    /\ response.code = 400
    /\ openingperiod # {}
    /\ last_update # NULL /\ last_update # <<0>>

\* C9: with all fields present, a claim whose digest does not match fails with
\* 'HMAC digest is wrong' whatever its time is; a claim with a matching digest
\* and a numeric time outside the 60-second window fails with 'Time is too far'.
C9_DigestBeforeFreshness ==
    [][PostStep =>
        /\ (Present(request') /\ ~Authentic(request'))
              => response' = Abort(400, <<"hmac", "HMAC digest is wrong">>)
        /\ (/\ Present(request') /\ Authentic(request')
            /\ isnumeric(request'.time) /\ Skew(request', now) > 60)
              => response' = Abort(400, <<"time", "Time is too far in the future or past">>)]_vars

\* C9 witness: a claim with a wrong digest and a time outside the window has
\* been refused for its digest
C9_Witness ==
    /\ response.error = <<"hmac", "HMAC digest is wrong">>
    /\ isnumeric(request.time)
    /\ Skew(request, now) > 60

\* C10: an authentic claim with a numeric time is refused with 'Time is too
\* far' if and only if |claimedTime - serverNow| > 60; a difference of exactly
\* 60 seconds passes in both directions, and duplicate-state claims are
\* checked like any other.
C10_ClockSkew ==
    [][(/\ PostStep
        /\ Present(request') /\ Authentic(request') /\ isnumeric(request'.time))
         => ((response' = Abort(400, <<"time", "Time is too far in the future or past">>))
             <=> Skew(request', now) > 60)]_vars

\* C10 witness: a duplicate-state claim 61 seconds ahead of the server clock
\* has been refused
C10_Witness ==
    /\ response.error = <<"time", "Time is too far in the future or past">>
    /\ isnumeric(request.time)
    /\ int(request.time) = now + 61
    /\ DuplicateState(openingperiod, request)

-----------------------------------------------------------------------------
(* The sensor reports and goes silent: its claims carry the server's time,   *)
(* and the clock runs on for more than ten minutes.                          *)

\* the sensor's requests whose time is the server time n
PunctualInputs(n) ==
    {Post(str(n), s, calculate_hmac(str(n), s, KEY)) : s \in DoorState}

\* the server clock advances, up to twelve minutes
TickStale ==
    /\ \E step \in TickSteps :
        /\ now + step <= StartTime + MaxTicksStale * 60
        /\ now' = now + step
    /\ UNCHANGED <<openingperiod, last_update, pc, data, latest_door_state, request, response>>
    /\ UNCHANGED plotvars

Post_punctual == \E d \in PunctualInputs(now) : update_doorstate(d)

NextStale == TickStale \/ Post_punctual \/ get_doorstate \/ spaceapi \/ get_doorstate_icon

SpecStale == Init /\ [][NextStale]_vars

\* a step that answers GET /spaceapi/door/
GetStep == request'.method = "GET" /\ now' = now

\* the LastUpdateMarker's timestamp: epoch zero while it was never touched
MarkerTime(row) == IF row = NULL THEN 0 ELSE row[1]

\* DerivedState of section 3 for a store, a marker and a server time
DerivedState(table, row, n) ==
    IF table = {} \/ n - MarkerTime(row) > 600 THEN "unknown"
    ELSE IF LatestPeriod(table)[1].closed = NULL THEN "opened"
    ELSE "closed"

\* C11: on every read the door state is unknown if and only if no period
\* exists or the marker is more than 600 seconds old (exactly 600 is not
\* stale, a never-touched marker counts as epoch zero); otherwise it is opened
\* if the latest period has no `closed`, else closed.
C11_DerivedStateOnRead ==
    [][GetStep => response'.state = DerivedState(openingperiod, last_update, now)]_vars

\* C11 witness: the marker is eleven minutes old, a closed period is stored
\* and the read says unknown
C11_Witness ==
    /\ request.method = "GET"
    /\ response.state = "unknown"
    /\ last_update # NULL
    /\ now - last_update[1] = 660
    /\ \E p \in openingperiod : p.closed # NULL

\* C12 as stated: whenever the door state reported is opened or closed, the
\* time reported with it is latestChangeTimestamp of the latest period, in the
\* answer to an accepted claim and in the answer of GET /spaceapi/door/.
C12_TimeIsLatestChange ==
    [][/\ (GetStep /\ response'.state \in {"opened", "closed"})
            => response'.time = LatestChange(LatestPeriod(openingperiod)[1])
       /\ (PostStep /\ response'.code = 200 /\ openingperiod' # {})
            => response'.time = LatestChange(LatestPeriod(openingperiod')[1])]_vars

\* C13 as stated: with no period stored a validated claim of 'closed' succeeds,
\* creates no period, and the door state derived afterwards is closed.
C13_BootstrapClosedDerivesClosed ==
    [][(/\ PostStep
        /\ PassesValidation(request', now)
        /\ openingperiod = {}
        /\ request'.state = "closed")
         => (/\ response'.code = 200
             /\ openingperiod' = {}
             /\ doorstate(openingperiod', last_update', now).state = "closed")]_vars

\* C13 as amended: with no period stored a validated claim of 'closed'
\* succeeds, creates no period and is answered with state closed and time 0;
\* the door state read afterwards is unknown, as no period exists.
C13_BootstrapClosedAnswersClosed ==
    [][(/\ PostStep
        /\ PassesValidation(request', now)
        /\ openingperiod = {}
        /\ request'.state = "closed")
         => (/\ response'.code = 200
             /\ openingperiod' = {}
             /\ response'.state = "closed"
             /\ response'.time = 0
             /\ doorstate(openingperiod', last_update', now).state = "unknown")]_vars

\* C13 witness: the first claim ever was 'closed' and has been acknowledged
C13_Witness ==
    /\ openingperiod = {}
    /\ request.method = "POST" /\ request.state = "closed"
    /\ response.code = 200 /\ response.state = "closed"


\* ---------------------------------------------------------------------------
\* The plotting client (doorstate_client.py)
\* ---------------------------------------------------------------------------

\* the longest history handed to a plot function
MaxEntries == 3

\* an instant in epoch seconds: day of the epoch, hour, minute (UTC)
At(day, h, m) == day * 86400 + h * 3600 + m * 60

\* the instants of the histories: Monday 1970-01-05 00:00 and 23:00, Tuesday
\* 01:00, Thursday 10:30, Sunday 23:59, and the same instants 14 days later
PlotInstants ==
    {At(4, 0, 0), At(4, 23, 0), At(5, 1, 0), At(7, 10, 30), At(10, 23, 59),
     At(18, 0, 0), At(18, 23, 0), At(19, 1, 0), At(21, 10, 30), At(24, 23, 59)}

\* datetime.utcfromtimestamp: a datetime is its epoch second
utcfromtimestamp(t) == t

\* datetime.date(): the day of the epoch
date(dt) == dt \div 86400

\* datetime.weekday(): Monday is 0; 1970-01-01 was a Thursday
weekday(dt) == (date(dt) + 3) % 7

\* datetime.time().hour and .minute
hour(dt) == (dt % 86400) \div 3600

minute(dt) == (dt % 3600) \div 60

\* timedelta(days=n), in seconds
timedelta(days) == days * 86400

\* datetime.combine(d, time(0)): midnight of the day d
combine(d) == d * 86400

\* a variant of hourfraction that forgets the minutes
hourfraction_HourOnly(dt) == hour(dt) * 60

\* lines 84 and 86: hour + minute / 60, counted in sixtieths of an hour
hourfraction(dt) == hour(dt) * 60 + minute(dt)

\* a variant of previous_monday whose weeks start on Sunday
previous_monday_Sunday(dt) == combine(date(dt - timedelta((weekday(dt) + 1) % 7)))

\* lines 115-116: midnight of the Monday at or before dt
previous_monday(dt) == combine(date(dt - timedelta(weekday(dt))))

\* a variant of Min that always takes its second argument
Min_Second(a, b) == b

\* min() of lines 120-121
Min(a, b) == IF a <= b THEN a ELSE b

\* a variant of WeekAmount that charges the whole rest of the week
WeekAmount_NoMin(from, until, next_monday) == next_monday - from

\* line 120: what one iteration of the sweep adds to the week of last_monday
WeekAmount(from, until, next_monday) == Min(until, next_monday) - from

\* defaultdict(timedelta): d[key] += amount
AddTo(d, key, amount) ==
    [k \in DOMAIN d \cup {key} |->
        (IF k \in DOMAIN d THEN d[k] ELSE 0) + (IF k = key THEN amount ELSE 0)]

\* OpeningPeriod.to_dict: what /door/all/ sends for one period
to_dict(p) ==
    [opened |-> opened_timestamp(p),
     closed |-> IF is_open(p) THEN NULL ELSE <<to_timestamp(p.closed[1])>>]

\* a variant of yields that forgets the state
yields_Always(last) == TRUE

\* line 70: a range is yielded for an entry that says open
yields(last) == last.state = "open"

\* lines 67-70: the keys the loop body reads
HasKeys(last, next) ==
    /\ "time" \in DOMAIN last
    /\ "time" \in DOMAIN next
    /\ "state" \in DOMAIN last

RECURSIVE Resume(_, _)
\* lines 66-73: the generator runs on from `last` = entries[k] to its next yield,
\* to its end or to a KeyError
Resume(entries, k) ==
    IF k + 1 > Len(entries) THEN [kind |-> "StopIteration", at |-> k]
    ELSE IF ~ HasKeys(entries[k], entries[k + 1]) THEN [kind |-> "KeyError", at |-> k]
    ELSE IF yields(entries[k]) THEN [kind |-> "yield", at |-> k + 1]
    ELSE Resume(entries, k + 1)

\* lines 67-72: the range yielded when `entry` is entries[j]
Range(entries, j) ==
    [start |-> utcfromtimestamp(entries[j - 1].time),
     end   |-> utcfromtimestamp(entries[j].time),
     state |-> entries[j - 1].state]

RECURSIVE RangesFrom(_, _)
\* the ranges the generator yields after `last` = entries[k]
RangesFrom(entries, k) ==
    LET r == Resume(entries, k)
    IN  IF r.kind = "yield"
        THEN <<Range(entries, r.at)>> \o RangesFrom(entries, r.at)
        ELSE <<>>

\* list(_open_ranges_with_end(entries)), up to a KeyError
open_ranges_with_end(entries) ==
    IF entries = <<>> THEN <<>> ELSE RangesFrom(entries, 1)

\* lines 87-91: the segments drawn for one range, <<day, from, to>>
Segments(r) ==
    IF date(r.start) # date(r.end)
    THEN << <<date(r.start), hourfraction(r.start), 24 * 60>>,
            <<date(r.end), 0, hourfraction(r.end)>> >>
    ELSE << <<date(r.start), hourfraction(r.start), hourfraction(r.end)>> >>

\* the history in the form the client reads: one entry per change of the door
EventHistories ==
    UNION {{h \in [1 .. n -> [time : PlotInstants, state : {"open", "close"}]] :
                \A i \in 1 .. n - 1 : h[i].time <= h[i + 1].time} :
           n \in 0 .. MaxEntries}

\* the history in the form /door/all/ sends: one to_dict entry per period
ServerHistories ==
    LET first  == to_dict(OpeningPeriod(At(4, 23, 0), <<At(5, 1, 0)>>))
        second == to_dict(OpeningPeriod(At(7, 10, 30), NULL))
    IN  {<<>>, <<first>>, <<second>>, <<first, second>>}

Histories == EventHistories \cup ServerHistories

\* plot_doorstate has fetched the history and calls the plot function
InitPlot ==
    /\ ServiceInit
    /\ list_of_entries \in Histories
    /\ plot_type \in {"by-week", "by-hour"}
    /\ position = 0
    /\ entry = NULL
    /\ start = 0
    /\ last_monday = 0
    /\ data_by_week = <<>>
    /\ added = <<>>
    /\ vlines = <<>>
    /\ plot_pc = "for"

\* lines 62-66: the for statement asks the generator for its next range; the
\* first call runs next() on the iterator of the whole list
NextOfGenerator ==
    IF position = 0
    THEN IF list_of_entries = <<>>
         THEN [kind |-> "Empty", at |-> 0]
         ELSE Resume(list_of_entries, 1)
    ELSE Resume(list_of_entries, position)

\* lines 111-116: plot_by_week takes the next range and starts its sweep.  On
\* an empty list next() raises StopIteration inside the generator, which ends
\* the generator silently before Python 3.7 and is a RuntimeError from 3.7 on.
ForWeek ==
    LET g == NextOfGenerator
    IN
    /\ plot_type = "by-week"
    /\ plot_pc = "for"
    /\ CASE g.kind = "Empty" ->
              /\ plot_pc' \in {"error", "plot"}
              /\ UNCHANGED <<position, entry, start, last_monday, added>>
         [] g.kind = "KeyError" ->
              /\ plot_pc' = "error"
              /\ UNCHANGED <<position, entry, start, last_monday, added>>
         [] g.kind = "StopIteration" ->
              /\ plot_pc' = "plot"
              /\ UNCHANGED <<position, entry, start, last_monday, added>>
         [] g.kind = "yield" ->
              LET r == Range(list_of_entries, g.at)
              IN  /\ position' = g.at
                  /\ entry' = <<r>>
                  /\ start' = r.start
                  /\ last_monday' = previous_monday(r.start)
                  /\ added' = <<>>
                  /\ plot_pc' = "while"
    /\ UNCHANGED <<list_of_entries, plot_type, data_by_week, vlines>>
    /\ UNCHANGED servicevars

\* lines 117-124: one iteration of the sweep over the weeks of the range
WhileWeek ==
    LET until       == entry[1].end
        next_monday == last_monday + timedelta(7)
        amount      == WeekAmount(start, until, next_monday)
    IN
    /\ plot_pc = "while"
    /\ data_by_week' = AddTo(data_by_week, date(last_monday), amount)
    /\ added' = AddTo(added, date(last_monday), amount)
    /\ start' = Min(until, next_monday)
    /\ last_monday' = next_monday
    /\ plot_pc' = IF until = start' THEN "for" ELSE "while"
    /\ UNCHANGED <<list_of_entries, plot_type, position, entry, vlines>>
    /\ UNCHANGED servicevars

\* lines 81-91: plot_by_hour takes the next range and draws its segments
ForHour ==
    LET g == NextOfGenerator
    IN
    /\ plot_type = "by-hour"
    /\ plot_pc = "for"
    /\ CASE g.kind = "Empty" ->
              /\ plot_pc' \in {"error", "plot"}
              /\ UNCHANGED <<position, entry, vlines>>
         [] g.kind = "KeyError" ->
              /\ plot_pc' = "error"
              /\ UNCHANGED <<position, entry, vlines>>
         [] g.kind = "StopIteration" ->
              /\ plot_pc' = "plot"
              /\ UNCHANGED <<position, entry, vlines>>
         [] g.kind = "yield" ->
              LET r == Range(list_of_entries, g.at)
              IN  /\ position' = g.at
                  /\ entry' = <<r>>
                  /\ vlines' = vlines \o Segments(r)
                  /\ plot_pc' = "for"
    /\ UNCHANGED <<list_of_entries, plot_type, start, last_monday, data_by_week, added>>
    /\ UNCHANGED servicevars

\* lines 93-105 and 126-146: the figure is drawn and saved
savefig ==
    /\ plot_pc = "plot"
    /\ plot_pc' = "done"
    /\ UNCHANGED <<list_of_entries, plot_type, position, entry, start, last_monday,
                   data_by_week, added, vlines>>
    /\ UNCHANGED servicevars

NextPlot == ForWeek \/ WhileWeek \/ ForHour \/ savefig

SpecPlot == InitPlot /\ [][NextPlot]_vars

\* the plot function is a sequential program that keeps running to its end
SpecPlotFair == SpecPlot /\ WF_vars(NextPlot)

\* ---------------------------------------------------------------------------
\* Properties of the plots
\* ---------------------------------------------------------------------------

RECURSIVE SumOf(_)
\* the sum of the durations of all weeks of d
SumOf(d) ==
    IF DOMAIN d = {} THEN 0
    ELSE LET k == CHOOSE x \in DOMAIN d : TRUE
         IN  d[k] + SumOf([x \in DOMAIN d \ {k} |-> d[x]])

\* plot_by_week has swept the range in `entry` completely
Swept == plot_type = "by-week" /\ plot_pc \in {"for", "plot", "done"} /\ entry # NULL

\* C14: for a range with start <= end the durations the sweep adds to all
\* weeks sum to exactly end - start.
C14_WeeksSumToDuration ==
    (Swept /\ entry[1].start <= entry[1].end)
        => SumOf(added) = entry[1].end - entry[1].start

\* a range that starts on a Thursday and ends in the third week after has
\* been swept into several weeks
C14_Witness ==
    /\ Swept
    /\ entry[1].start = At(7, 10, 30)
    /\ entry[1].end = At(19, 1, 0)
    /\ Cardinality(DOMAIN added) = 3
    /\ SumOf(added) = At(19, 1, 0) - At(7, 10, 30)

\* the range swept last lasts exactly two full weeks
TwoWeeks == Swept /\ entry[1].end - entry[1].start = 14 * 86400

\* C15 as stated: a range of exactly 14 days is spread over exactly 3 weeks
\* whose durations sum to the 14 days, wherever it starts.
C15_ThreeBuckets ==
    TwoWeeks => Cardinality(DOMAIN added) = 3 /\ SumOf(added) = 14 * 86400

\* the range starts at a Monday 00:00
StartsAtWeekStart(r) == (date(r.start) - 4) % 7 = 0 /\ r.start % 86400 = 0

\* C15: a range of exactly 14 days is spread over exactly 2 weeks of 7 days
\* each when it starts at a Monday 00:00 and over exactly 3 weeks otherwise;
\* the durations always sum to the 14 days.
C15_TwoOrThreeBuckets ==
    TwoWeeks =>
        /\ SumOf(added) = 14 * 86400
        /\ IF StartsAtWeekStart(entry[1])
           THEN /\ Cardinality(DOMAIN added) = 2
                /\ \A k \in DOMAIN added : added[k] = 7 * 86400
           ELSE Cardinality(DOMAIN added) = 3

\* a range from Monday 00:00 to Monday 00:00 two weeks later has been swept
C15_Witness ==
    /\ TwoWeeks
    /\ entry[1].start = At(4, 0, 0)
    /\ DOMAIN added = {4, 11}

\* the minute of the day of an instant: 60 * (hour + minute / 60)
MinuteOfDay(t) == (t % 86400) \div 60

\* the segments of a range as the claim states them, in sixtieths of an hour
ClaimedSegments(r) ==
    IF r.start \div 86400 = r.end \div 86400
    THEN << <<r.start \div 86400, MinuteOfDay(r.start), MinuteOfDay(r.end)>> >>
    ELSE << <<r.start \div 86400, MinuteOfDay(r.start), 24 * 60>>,
            <<r.end \div 86400, 0, MinuteOfDay(r.end)>> >>

\* C16: for each range plot_by_hour draws exactly one segment (day, start hour,
\* end hour) when start and end are on the same day and exactly the two
\* segments (start day, start hour, 24) and (end day, 0, end hour) otherwise,
\* with the hours counted as hour + minute / 60 in [0, 24).
C16_Segments ==
    [][(plot_type = "by-hour" /\ position' # position)
        => /\ vlines' = vlines \o ClaimedSegments(entry'[1])
           /\ \A i \in 1 .. Len(vlines') :
                /\ vlines'[i][2] >= 0 /\ vlines'[i][2] < 24 * 60
                /\ vlines'[i][3] >= 0 /\ vlines'[i][3] <= 24 * 60
                /\ vlines'[i][3] = 24 * 60 =>
                      (i < Len(vlines') /\ vlines'[i + 1][2] = 0)]_vars

\* Monday 23:00 to Tuesday 01:00 has been drawn as (Mon, 23, 24), (Tue, 0, 1),
\* and a range over more than two days as two segments as well
C16_Witness ==
    /\ plot_type = "by-hour"
    /\ Len(vlines) = 4
    /\ vlines[1] = <<4, 23 * 60, 24 * 60>>
    /\ vlines[2] = <<5, 0, 60>>
    /\ vlines[3] = <<5, 60, 24 * 60>>
    /\ vlines[4] = <<21, 0, 10 * 60 + 30>>

\* the length of the overlap of [from, until] with the week that starts at w
Overlap(from, until, w) ==
    LET lo == IF from >= w THEN from ELSE w
        hi == IF until <= w + 7 * 86400 THEN until ELSE w + 7 * 86400
    IN  IF hi >= lo THEN hi - lo ELSE 0

\* the Monday 00:00 instants from the week before `from` up to `until`
WeekStarts(from, until) ==
    {d * 86400 : d \in {x \in (from \div 86400) - 7 .. (until \div 86400) : (x - 4) % 7 = 0}}

\* C20: for every range and every week start W (a Monday 00:00) the sweep
\* adds to W exactly the length of the overlap of [start, end] with
\* [W, W + 7 days); the first week used is the one of the most recent Monday
\* 00:00 at or before start, and no week receives more than 7 days.
C20_OverlapPerWeek ==
    Swept =>
        LET r      == entry[1]
            starts == WeekStarts(r.start, r.end)
            first  == CHOOSE w \in starts : w <= r.start /\ r.start < w + 7 * 86400
        IN  /\ first \div 86400 \in DOMAIN added
            /\ \A k \in DOMAIN added : k * 86400 \in starts /\ k * 86400 >= first
            /\ \A w \in starts :
                  LET got == IF w \div 86400 \in DOMAIN added
                             THEN added[w \div 86400] ELSE 0
                  IN  got = Overlap(r.start, r.end, w) /\ got <= 7 * 86400

\* a range from Thursday 10:30 to Sunday 23:59 two weeks later has been swept:
\* a partial first week, a full week and a partial last week
C20_Witness ==
    /\ Swept
    /\ entry[1].start = At(7, 10, 30)
    /\ entry[1].end = At(24, 23, 59)
    /\ DOMAIN added = {4, 11, 18}
    /\ added[4] = At(11, 0, 0) - At(7, 10, 30)
    /\ added[11] = 7 * 86400
    /\ added[18] = At(24, 23, 59) - At(18, 0, 0)

\* the last entry of the history says the door is still open, in either form
StillOpen(e) == IF "state" \in DOMAIN e THEN e.state = "open" ELSE e.closed = NULL

\* when the period of the last entry was opened
OpenedAt(e) == IF "time" \in DOMAIN e THEN e.time ELSE e.opened

\* the instants a caller may supply as "now": any instant of the history and
\* one after all of them
ReferenceInstants == PlotInstants \cup {At(25, 0, 0)}

RECURSIVE TotalOf(_)
\* the summed length of a sequence of ranges
TotalOf(ranges) ==
    IF ranges = <<>> THEN 0
    ELSE (ranges[1].end - ranges[1].start) + TotalOf(Tail(ranges))

\* C17 as stated: when the last entry of the history is still open, both plots
\* count its period from its opening up to a reference instant "now" instead
\* of leaving it out.
C17_TrailingOpenEndsNow ==
    (plot_pc = "done" /\ list_of_entries # <<>>
        /\ StillOpen(list_of_entries[Len(list_of_entries)]))
    => LET opened == OpenedAt(list_of_entries[Len(list_of_entries)])
       IN  \E ref \in ReferenceInstants :
             LET trailing == [start |-> opened, end |-> ref, state |-> "open"]
                 segs     == ClaimedSegments(trailing)
             IN  /\ ref >= opened
                 /\ plot_type = "by-week" =>
                      /\ (opened \div 86400) - (((opened \div 86400) + 3) % 7)
                            \in DOMAIN data_by_week
                      /\ SumOf(data_by_week) =
                            TotalOf(open_ranges_with_end(list_of_entries)) + (ref - opened)
                 /\ plot_type = "by-hour" =>
                      /\ Len(vlines) >= Len(segs)
                      /\ SubSeq(vlines, Len(vlines) - Len(segs) + 1, Len(vlines)) = segs

\* ---------------------------------------------------------------------------
\* Properties of the marker
\* ---------------------------------------------------------------------------

\* the period change request r asked for is in the committed table
ChangeCommitted(table, r) ==
    IF data[r].state = "opened"
    THEN \E p \in table : p.opened = int(data[r].time)
    ELSE \E p \in table :
            /\ latest_door_state[r] # NULL
            /\ p.opened = latest_door_state[r][1].opened
            /\ p.closed # NULL

\* C18: in the mutating branches the period change is committed first and the
\* marker is touched afterwards: the step that commits (or fails to commit)
\* a request's change leaves the marker alone, the marker only moves in the
\* last step of a request that is past its commit or is a duplicate, the
\* change of a request that touches the marker is committed already, and when
\* that request completes both the change and the marker's new time are
\* visible.
C18_CommitThenMarker ==
    [][/\ \A r \in Requests :
            /\ (pc[r] = "update" /\ pc'[r] # "update") =>
                    /\ last_update' = last_update
                    /\ pc'[r] = "touch" => ChangeCommitted(openingperiod', r)
            /\ (pc[r] = "touch" /\ pc'[r] # "touch") =>
                    /\ ChangeCommitted(openingperiod, r)
                    /\ openingperiod' = openingperiod
                    /\ last_update' = <<now>>
                    /\ pc'[r] = "idle"
                    /\ response'.code = 200
       /\ last_update' # last_update =>
            \E r \in Requests : pc[r] \in {"touch", "already"} /\ pc'[r] = "idle"
      ]_vars

\* a request has opened the door and completed while the other request is
\* still between its read and its commit
C18_Witness ==
    /\ \E r \in Requests : pc[r] = "update"
    /\ request.method = "POST"
    /\ request.state = "opened"
    /\ response.code = 200
    /\ response.text = "door is now"
    /\ last_update = <<now>>
    /\ \E p \in openingperiod : p.opened = int(request.time) /\ p.closed = NULL

\* what the three read endpoints say of the door and of its last change
Reads(table, marker, n) ==
    [spaceapi_open       |-> spaceapi_json(table, marker, n).state,
     spaceapi_lastchange |-> spaceapi_json(table, marker, n).time,
     door_state          |-> doorstate(table, marker, n).state,
     door_time           |-> doorstate(table, marker, n).time,
     icon                |-> logo_name(table, marker, n)]

\* C19 as stated: the marker reaches the reads only through the stale /
\* not-stale decision: two states with the same periods whose markers are
\* both not stale give the same open/closed state and the same last-change
\* time on every read endpoint, whatever the markers' values.  Checked on the
\* two states of every step.
C19_MarkerOnlyDecidesStaleness ==
    [][(/\ openingperiod' = openingperiod
        /\ ~ last_update_is_outdated(last_update, now)
        /\ ~ last_update_is_outdated(last_update', now'))
        => Reads(openingperiod', last_update', now') = Reads(openingperiod, last_update, now)
      ]_vars

\* ---------------------------------------------------------------------------
\* Termination of the sweep
\* ---------------------------------------------------------------------------

\* the Monday 00:00 at or before t
WeekStartOf(t) == ((t \div 86400) - (((t \div 86400) + 3) % 7)) * 86400

\* ceil((end - weekStart) / 7 days) for the range r
CeilWeeks(r) == ((r.end - WeekStartOf(r.start)) + 7 * 86400 - 1) \div (7 * 86400)

\* one iteration of the sweep has run
SweepStep == plot_pc = "while" /\ last_monday' # last_monday

\* every iteration moves `start` towards the end of the range or reaches it,
\* never passes it, the loop is left exactly when `start` has reached the end,
\* and the number of iterations so far (one week of `added` each) is at most
\* limit
SweepAdvances(limit) ==
    SweepStep =>
        /\ start' > start \/ start' = entry[1].end
        /\ start' <= entry[1].end
        /\ plot_pc' = "for" <=> start' = entry[1].end
        /\ Cardinality(DOMAIN added') <= limit

\* a sweep that has begun is left with `start` at the end of the range
SweepEnds ==
    (plot_pc = "while") ~> (plot_pc = "for" /\ entry # NULL /\ start = entry[1].end)

\* C21 as stated: the sweep terminates for every range: each iteration
\* advances `start` towards the end or reaches it and the loop is left with
\* start == end after at most ceil((end - weekStart) / 7 days) iterations,
\* zero-length ranges included.
C21_TerminatesWithinCeil ==
    /\ [][SweepAdvances(CeilWeeks(entry[1]))]_vars
    /\ SweepEnds

\* C21: the sweep terminates for every range: each iteration advances
\* `start` towards the end or reaches it and the loop is left with
\* start == end after at most max(1, ceil((end - weekStart) / 7 days))
\* iterations: the body always runs once, also for a zero-length range that
\* starts at a week start.
C21_Terminates ==
    /\ [][SweepAdvances(IF CeilWeeks(entry[1]) >= 1 THEN CeilWeeks(entry[1]) ELSE 1)]_vars
    /\ SweepEnds

\* a zero-length range at Monday 00:00 has been swept in one iteration
C21_Witness ==
    /\ Swept
    /\ entry[1].start = At(4, 0, 0)
    /\ entry[1].end = At(4, 0, 0)
    /\ start = entry[1].end
    /\ DOMAIN added = {4}

\* ---------------------------------------------------------------------------
\* The sensor goes offline
\* ---------------------------------------------------------------------------

\* a step in which a claim is accepted
AcceptStep == PostStep /\ response'.code = 200

\* the door state GET /spaceapi/door/ would report
ReadState(table, marker, n) == doorstate(table, marker, n).state

\* C22: the marker holds the server time of the last accepted claim (of those
\* made with a period stored afterwards) and moves in no other step; once
\* more than 600 seconds have passed since then the state read is unknown; an
\* unknown state stays unknown in every step that accepts no claim; and right
\* after an accepted claim with a period stored the state read is the latest
\* period's state, not unknown.
C22_OfflineDetection ==
    [][/\ (AcceptStep /\ openingperiod' # {}) =>
            /\ MarkerTime(last_update') = now'
            /\ ReadState(openingperiod', last_update', now')
                    = PeriodState(LatestPeriod(openingperiod')[1])
       /\ ~ AcceptStep =>
            /\ MarkerTime(last_update') = MarkerTime(last_update)
            /\ openingperiod' = openingperiod
            /\ ReadState(openingperiod, last_update, now) = "unknown"
                    => ReadState(openingperiod', last_update', now') = "unknown"
       /\ now' - MarkerTime(last_update') > 600
            => ReadState(openingperiod', last_update', now') = "unknown"
      ]_vars

\* eleven minutes after the door was reported open the read says unknown, a
\* minute after it already did
C22_Witness ==
    /\ request.method = "GET"
    /\ response.state = "unknown"
    /\ openingperiod = {OpeningPeriod(StartTime, NULL)}
    /\ last_update = <<StartTime>>
    /\ now = StartTime + 720

\* ---------------------------------------------------------------------------
\* The history query (get_doorstate_all)
\* ---------------------------------------------------------------------------

\* .limit(2000)
LIMIT == 2000

\* .filter(OpeningPeriod.opened >= time_from, OpeningPeriod.opened <= time_to)
filter(table, time_from, time_to) ==
    {p \in table : p.opened >= time_from /\ p.opened <= time_to}

RECURSIVE order_by_asc(_, _, _)
\* .order_by(DB.asc(OpeningPeriod.opened)) of rows whose keys lie in lo .. hi:
\* the rows of the lower half of the keys, then those of the upper half; the
\* primary key `opened` is unique
order_by_asc(rows, lo, hi) ==
    IF rows = {} THEN <<>>
    ELSE IF Cardinality(rows) = 1 THEN <<CHOOSE p \in rows : TRUE>>
    ELSE LET mid  == (lo + hi) \div 2
             left == {p \in rows : p.opened <= mid}
         IN  order_by_asc(left, lo, mid) \o order_by_asc(rows \ left, mid + 1, hi)

\* a variant of limit that returns every row
limit_None(rows, n) == rows

\* .limit(n)
limit(rows, n) == SubSeq(rows, 1, Min(Len(rows), n))

\* lines 395-400: the query
all_entries(table, time_from, time_to) ==
    limit(order_by_asc(filter(table, time_from, time_to), time_from, time_to), LIMIT)

\* lines 380-392: int() of an argument raises ValueError unless it is a number
ArgError(arg) == arg # NULL /\ ~ isnumeric(arg[1])

\* lines 380-385: `from`, by default a year (365 days) before now
time_from(arg, n) == IF arg = NULL THEN n - 365 * 86400 ELSE fromtimestamp(int(arg[1]))

\* lines 386-391: `to`, by default now
time_to(arg, n) == IF arg = NULL THEN n ELSE fromtimestamp(int(arg[1]))

GetAll(from, to) ==
    [method |-> "GET /spaceapi/door/all/", time |-> <<>>, state |-> "", hmac |-> <<>>,
     from |-> from, to |-> to]

\* GET /spaceapi/door/all/?from=..&to=..: the client receives the list
get_doorstate_all(from, to) ==
    /\ request' = GetAll(from, to)
    /\ IF ArgError(from) \/ ArgError(to)
       THEN /\ response' = Abort(400, <<"From and to have to be timestamps">>)
            /\ UNCHANGED list_of_entries
       ELSE \E rows \in {all_entries(openingperiod, time_from(from, now), time_to(to, now))} :
                /\ response' = Json(0, "", "")
                /\ list_of_entries' = [i \in 1 .. Len(rows) |-> to_dict(rows[i])]
    /\ UNCHANGED <<now, openingperiod, last_update, pc, data, latest_door_state>>
    /\ UNCHANGED <<plot_type, position, entry, start, last_monday, data_by_week, added,
                   vlines, plot_pc>>

\* the sizes of the stored history: none, few, the limit and one more
HistorySizes == {0, 1, 2, LIMIT, LIMIT + 1}

\* a history of n closed periods, one opened every two seconds
StoredHistory(n) ==
    {OpeningPeriod(StartTime + 2 * k, <<StartTime + 2 * k + 1>>) : k \in 1 .. n}

\* the `from` and `to` arguments asked with
FromArgs ==
    {NULL, <<str(0)>>, <<str(StartTime + 2)>>, <<str(StartTime + 4)>>, <<<<"a", "b", "c">>>>}

ToArgs ==
    {NULL, <<str(StartTime + 2)>>, <<str(StartTime + 2 * LIMIT)>>,
     <<str(StartTime + 2 * LIMIT + 2)>>, <<<<"1", ".", "5">>>>}

\* the service with a history stored, the last period closed just now
InitHistory ==
    /\ \E n \in HistorySizes :
        /\ openingperiod = StoredHistory(n)
        /\ now = StartTime + 2 * n + 1
        /\ last_update = IF n = 0 THEN NULL ELSE <<now>>
    /\ pc = [r \in Requests |-> "idle"]
    /\ data = [r \in Requests |-> NoRequest]
    /\ latest_door_state = [r \in Requests |-> NULL]
    /\ request = NoRequest
    /\ response = NoResponse
    /\ NoPlot

Get_doorstate_all == \E from \in FromArgs : \E to \in ToArgs : get_doorstate_all(from, to)

NextHistory == Get_doorstate_all

SpecHistory == InitHistory /\ [][NextHistory]_vars

\* ---------------------------------------------------------------------------
\* The history
\* ---------------------------------------------------------------------------

\* C23: under sequential claims the history only grows: in every step each
\* stored period is still stored under the same `opened`, the number of
\* periods does not decrease, and a `closed` that was set keeps its value.
C23_AppendOnly ==
    [][/\ \A p \in openingperiod :
            \E q \in openingperiod' :
                /\ q.opened = p.opened
                /\ p.closed # NULL => q.closed = p.closed
       /\ Cardinality(openingperiod') >= Cardinality(openingperiod)
      ]_vars

\* a second period has been opened and closed after the first was closed, and
\* the first is still stored as it was
C23_Witness ==
    /\ openingperiod = {OpeningPeriod(StartTime - 60, <<StartTime>>),
                        OpeningPeriod(StartTime + 60, <<StartTime + 120>>)}
    /\ request.method = "POST"
    /\ request.state = "closed"
    /\ response.code = 200

\* a step that answers GET /spaceapi/door/all/
HistoryStep == request'.method = "GET /spaceapi/door/all/"

\* the bounds a history query asks for: a year back and now by default
AskedFrom(req, n) == IF req.from = NULL THEN n - 365 * 86400 ELSE int(req.from[1])

AskedTo(req, n) == IF req.to = NULL THEN n ELSE int(req.to[1])

\* C24: a history query changes neither the periods nor the marker, and the
\* list it returns holds only stored periods with from <= opened <= to, in
\* strictly ascending order of `opened`, and never more than 2000 of them.
C24_HistoryQuery ==
    [][HistoryStep =>
        /\ openingperiod' = openingperiod
        /\ last_update' = last_update
        /\ response'.code = 200 =>
             \E rows \in {list_of_entries'} :
                /\ Len(rows) <= 2000
                /\ \A i \in 1 .. Len(rows) :
                      /\ \E p \in {OpeningPeriod(rows[i].opened, rows[i].closed)} :
                            p \in openingperiod /\ to_dict(p) = rows[i]
                      /\ rows[i].opened >= AskedFrom(request', now)
                      /\ rows[i].opened <= AskedTo(request', now)
                /\ \A i \in 1 .. Len(rows) - 1 : rows[i].opened < rows[i + 1].opened
      ]_vars

\* 2001 periods are stored, all of them were asked for, and the 2000 oldest
\* have been returned
C24_Witness ==
    /\ request.method = "GET /spaceapi/door/all/"
    /\ request.from = <<str(0)>>
    /\ request.to = NULL
    /\ response.code = 200
    /\ Cardinality(openingperiod) = 2001
    /\ Len(list_of_entries) = 2000
    /\ list_of_entries[1].opened = StartTime + 2
    /\ list_of_entries[2000].opened = StartTime + 4000

\* ---------------------------------------------------------------------------
\* Totality of the transition logic
\* ---------------------------------------------------------------------------

\* C25: the transition logic is total: whichever stored period (or none) a
\* request has read as the latest, a validated claim is a no-op success, is
\* rejected as not newer, or takes the closing or the opening branch; a
\* request on its way to the update takes one of the two branches by the one
\* period it read itself, whatever other requests have committed since; and
\* abort(500, 'This should not happen') is never answered.
C25_Total ==
    /\ \A latest \in {NULL} \cup {<<p>> : p \in openingperiod} :
       \A state \in DoorState :
       \A time \in {now + off : off \in SensorOffsets} :
            /\ Decide(latest, state, time) \in {"already", "already_nodata", "not_newer", "update"}
            /\ Decide(latest, state, time) = "update"
                    => UpdateBranch(latest, state) \in {"close", "open"}
    /\ \A r \in Requests :
            pc[r] = "update" => UpdateBranch(latest_door_state[r], data[r].state) \in {"close", "open"}
    /\ response.error # <<"This should not happen">>

\* a request that read an empty store is on its way to open the door while
\* another request has opened it already
C25_Witness ==
    \E r \in Requests :
        /\ pc[r] = "update"
        /\ latest_door_state[r] = NULL
        /\ data[r].state = "opened"
        /\ \E p \in openingperiod : p.closed = NULL

\* ---------------------------------------------------------------------------
\* Duplicate claims and the time check
\* ---------------------------------------------------------------------------

\* the answer that rejects a claim as not newer than the latest change
NotNewer == <<"time", "New entry must be newer than latest entry">>

\* C26: among claims that pass every validation step, "must be newer" is only
\* answered when the claimed state differs from the latest period's state (and
\* the claimed time is not after its last change); a claim of the state the
\* latest period already has succeeds as a no-op whatever its time, changes
\* no period, and its answer carries the stored last-change time and the
\* stored state, not the claimed time.
C26_DuplicateNeverRejected ==
    [][(PostStep /\ PassesValidation(request', now)) =>
        /\ response'.error = NotNewer =>
                /\ LatestPeriod(openingperiod) # NULL
                /\ PeriodState(LatestPeriod(openingperiod)[1]) # request'.state
                /\ int(request'.time) <= LatestChange(LatestPeriod(openingperiod)[1])
        /\ DuplicateState(openingperiod, request') =>
                /\ response'.code = 200
                /\ response'.time = LatestChange(LatestPeriod(openingperiod)[1])
                /\ response'.state = PeriodState(LatestPeriod(openingperiod)[1])
                /\ openingperiod' = openingperiod
      ]_vars

\* the door was closed at 1000 and a claim of 'closed' with the older time 940
\* has been accepted and answered with the stored time 1000
C26_Witness ==
    /\ request.method = "POST"
    /\ request.state = "closed"
    /\ request.time = str(StartTime - 60)
    /\ response.code = 200
    /\ response.state = "closed"
    /\ response.time = StartTime
    /\ \E p \in openingperiod : p.closed = <<StartTime>>

\* ---------------------------------------------------------------------------
\* The empty history
\* ---------------------------------------------------------------------------

\* C27 as stated: for a history with no entries the extraction of the ranges
\* and both plots run without an error and come out empty: no segments and no
\* weeks.
C27_EmptyHistoryPlots ==
    (plot_type \in {"by-week", "by-hour"} /\ list_of_entries = <<>>) =>
        /\ plot_pc # "error"
        /\ vlines = <<>>
        /\ DOMAIN data_by_week = {}

====
